---- MODULE Spec2Model ----
(***************************************************************************)
(* The concurrent grid engine of Game-Of-Life (src-tauri): the Board       *)
(* registry (board.rs), its cells (cell.rs), the commands that expose it   *)
(* (main.rs) and the earlier full-scan engine (cell_manager.rs).           *)
(*                                                                         *)
(* A Uuid is modelled by a natural number drawn from a counter: every      *)
(* Uuid::new_v4() is a fresh value.  A DashMap / HashMap is a function     *)
(* whose DOMAIN is the set of keys present.  An Option is a set with at    *)
(* most one element.  A Vec whose order is unspecified (collected from a   *)
(* parallel iterator over a map) is the set of its elements.  A Weak<Cell> *)
(* is the id of its target; it upgrades while the registry still owns the  *)
(* target.                                                                 *)
(***************************************************************************)
EXTENDS Integers, FiniteSets, Sequences, TLC

VARIABLES
    width,           \* Board.width
    height,          \* Board.height
    generation,      \* Board.generation
    cells,           \* Board.cells : id -> Cell (alive, x, y, neighbors)
    position_to_id,  \* Board.position_to_id : <<x, y>> -> id
    uuid,            \* the number of Uuids handed out so far
    step,            \* the step in flight: its phase, the locals of its two phases,
                     \* its workers and the Mutex guards they hold
    op,              \* name of the last operation that ran
    arg,             \* its arguments
    ret              \* the value it returned: the elements of the Vec, or the one
                     \* tuple, as a set

vars == <<width, height, generation, cells, position_to_id, uuid, step, op, arg, ret>>

board == <<width, height, generation, cells, position_to_id>>

(***************************************************************************)
(* Bounds of the model.                                                    *)
(***************************************************************************)
\* Spec: the Board API with rebuilds, on small boards
MaxW == 2
MaxH == 2
MaxIds == 4
MaxGen == 2
MaxPairs == 1
\* SpecLife: the commands of main.rs on one board, every assignment of flags
LifeW == 3
LifeH == 3
LifeCells == 9
LifeGen == 1
\* SpecStep: one step worker by worker
StepW == 3
StepH == 2
StepCells == 4
StepGen == 1
\* SpecLock: one step lock by lock
LockW == 2
LockH == 2
LockCells == 2
LockGen == 1
\* SpecEdit: one step with an edit on another thread
EditW == 3
EditH == 1
EditCells == 3
EditGen == 1

\* SpecGlider: a glider on boards that do and do not leave it room
GliderW == 5
GliderH == 5
GliderGen == 4

\* usize::MAX, as far as TLC's integers reach
UsizeMax == 2147483647

EmptyMap == [k \in {} |-> 0]

(***************************************************************************)
(* cell.rs                                                                 *)
(***************************************************************************)
\* Cell::new
NewCell(alive, x, y) == [alive |-> alive, x |-> x, y |-> y, neighbors |-> EmptyMap]

\* set_alive that flips the flag it finds
set_alive_toggle(cell, alive) == [cell EXCEPT !.alive = ~cell.alive]

\* Cell::set_alive
set_alive(cell, alive) == [cell EXCEPT !.alive = alive]

\* Cell::add_neighbor: HashMap::insert, which overwrites
add_neighbor(cell, pos, neighbor) ==
    [cell EXCEPT !.neighbors =
        [p \in DOMAIN cell.neighbors \cup {pos} |->
            IF p = pos THEN neighbor ELSE cell.neighbors[p]]]

\* Weak::upgrade: the target is still owned by the registry cs
upgrade(cs, weak) == IF weak \in DOMAIN cs THEN {weak} ELSE {}

\* Cell::get_neighbors: the ids of the neighbors that upgrade
get_neighbors(cs, id) ==
    UNION {upgrade(cs, cs[id].neighbors[p]) : p \in DOMAIN cs[id].neighbors}

\* count_alive_neighbors that counts the cell itself with its neighbors
count_alive_neighbors_and_self(cs, id) ==
    Cardinality({n \in get_neighbors(cs, id) \cup {id} : cs[n].alive})

\* Cell::count_alive_neighbors: one per entry that upgrades and is alive
count_alive_neighbors(cs, id) ==
    Cardinality({p \in DOMAIN cs[id].neighbors :
        \E n \in upgrade(cs, cs[id].neighbors[p]) : cs[n].alive})

\* checked_sub / checked_add on usize
checked_sub(a, b) == IF a - b < 0 THEN {} ELSE {a - b}
checked_add(a, b) == IF a + b > UsizeMax THEN {} ELSE {a + b}

\* offset_position with saturating_sub in place of checked_sub
offset_position_saturating(position, offset) ==
    IF offset < 0
    THEN {IF position + offset < 0 THEN 0 ELSE position + offset}
    ELSE checked_add(position, offset)

\* Cell::offset_position
offset_position(position, offset) ==
    IF offset < 0
    THEN checked_sub(position, -offset)
    ELSE checked_add(position, offset)

\* the match with the arm (true, _) => true: a live cell never dies
future_state_alive_stays(alive, alive_neighbors) == alive \/ alive_neighbors = 3

\* the match with the arm (_, 2) | (_, 3) => true
future_state_any_two_or_three(alive, alive_neighbors) == alive_neighbors \in {2, 3}

\* the match of Cell::compute_future_state
future_state(alive, alive_neighbors) ==
    CASE alive /\ alive_neighbors = 2 -> TRUE
      [] alive /\ alive_neighbors = 3 -> TRUE
      [] ~alive /\ alive_neighbors = 3 -> TRUE
      [] OTHER -> FALSE

\* Cell::compute_future_state
compute_future_state(cs, id) ==
    future_state(cs[id].alive, count_alive_neighbors(cs, id))

(***************************************************************************)
(* board.rs                                                                *)
(***************************************************************************)
\* the offsets with (0, 0) among them
neighbor_offsets_with_self ==
    {<<-1, -1>>, <<0, -1>>, <<1, -1>>, <<-1, 0>>, <<0, 0>>, <<1, 0>>, <<-1, 1>>, <<0, 1>>, <<1, 1>>}

\* the offsets array of Board::compute_neighbors

neighbor_offsets ==
    {<<-1, -1>>, <<0, -1>>, <<1, -1>>, <<-1, 0>>, <<1, 0>>, <<-1, 1>>, <<0, 1>>, <<1, 1>>}

\* (0..width) x (0..height), the ranges fill_cells and compute_neighbors iterate
Grid(w, h) == (0 .. w - 1) \X (0 .. h - 1)

\* Board::get_cell
get_cell(cs, id) == IF id \in DOMAIN cs THEN {id} ELSE {}

\* Board::fill_cells, the ids: the cell made for <<x, y>> takes a fresh Uuid
FreshId(next, h, pos) == next + pos[1] * h + pos[2]

\* Board::fill_cells, position_to_id: insert overwrites, other keys stay
fill_position_to_id(p2i, next, w, h) ==
    [pos \in DOMAIN p2i \cup Grid(w, h) |->
        IF pos \in Grid(w, h) THEN FreshId(next, h, pos) ELSE p2i[pos]]

\* Board::fill_cells, cells: add_cell of a dead cell for every position
fill_cells(cs, next, w, h) ==
    LET fresh == {FreshId(next, h, pos) : pos \in Grid(w, h)}
        posOf(id) == CHOOSE pos \in Grid(w, h) : FreshId(next, h, pos) = id
    IN  [id \in DOMAIN cs \cup fresh |->
            IF id \in fresh
            THEN NewCell(FALSE, posOf(id)[1], posOf(id)[2])
            ELSE cs[id]]

\* the loop body registering only the neighbors after pos in the order of the
\* grid, as if the other direction were registered by the neighbor's own turn
neighbor_positions_forward(cs, p2i, w, h, pos) ==
    {n \in UNION {offset_position(pos[1], d[1]) \X offset_position(pos[2], d[2]) :
                    d \in neighbor_offsets} :
        /\ n[1] < w /\ n[2] < h
        /\ n \in DOMAIN p2i
        /\ get_cell(cs, p2i[n]) # {}
        /\ (n[1] > pos[1] \/ (n[1] = pos[1] /\ n[2] > pos[2]))}

\* the body of the offsets loop of compute_neighbors for the cell at pos:
\* the positions at which add_neighbor is called
neighbor_positions(cs, p2i, w, h, pos) ==
    {n \in UNION {offset_position(pos[1], d[1]) \X offset_position(pos[2], d[2]) :
                    d \in neighbor_offsets} :
        /\ n[1] < w /\ n[2] < h
        /\ n \in DOMAIN p2i
        /\ get_cell(cs, p2i[n]) # {}}

\* the calls of add_neighbor of that loop, one for each position
RECURSIVE add_neighbors(_, _, _)
add_neighbors(cell, positions, p2i) ==
    IF positions = {}
    THEN cell
    ELSE LET pos == CHOOSE p \in positions : TRUE
         IN  add_neighbors(add_neighbor(cell, pos, p2i[pos]), positions \ {pos}, p2i)

\* Board::compute_neighbors: every position of the grid whose cell is found
\* has its cell register the neighbors found around it
compute_neighbors(cs, p2i, w, h) ==
    [id \in DOMAIN cs |->
        LET visits == {pos \in Grid(w, h) : pos \in DOMAIN p2i /\ p2i[pos] = id}
        IN  add_neighbors(cs[id],
                UNION {neighbor_positions(cs, p2i, w, h, pos) : pos \in visits}, p2i)]

\* clear_cells that clears nothing
clear_cells_keep(cs) == cs

\* Board::clear_cells
clear_cells(cs) == EmptyMap

\* create_board without reset: the cells of the board before stay registered
create_cells_no_reset(cs, p2i, next, w, h) ==
    compute_neighbors(fill_cells(cs, next, w, h),
                      fill_position_to_id(p2i, next, w, h), w, h)

\* Board::create_board, the cells: reset, set_size, fill_cells, compute_neighbors
create_cells(cs, p2i, next, w, h) ==
    compute_neighbors(fill_cells(clear_cells(cs), next, w, h),
                      fill_position_to_id(p2i, next, w, h), w, h)

\* kill_board that allocates new dead cells in place of the old ones
kill_cells_realloc(cs) == [id \in DOMAIN cs |-> NewCell(FALSE, cs[id].x, cs[id].y)]

\* kill_board that leaves the first cell as it is
kill_cells_skip_first(cs) ==
    [id \in DOMAIN cs |->
        IF \A other \in DOMAIN cs : id <= other THEN cs[id] ELSE set_alive(cs[id], FALSE)]

\* Board::kill_board, the cells
kill_cells(cs) == [id \in DOMAIN cs |-> set_alive(cs[id], FALSE)]

\* get_relevant_cells without the filter: every cell of the registry
get_relevant_cells_all(cs) == DOMAIN cs

\* get_relevant_cells without the neighbors of the alive cells
get_relevant_cells_alive_only(cs) == {id \in DOMAIN cs : cs[id].alive}

\* Board::get_relevant_cells: the alive cells and the neighbors of each
get_relevant_cells(cs) ==
    LET living == {id \in DOMAIN cs : cs[id].alive}
    IN  living \cup UNION {get_neighbors(cs, id) : id \in living}

\* compute_next_generation over every cell of the registry, relevant or not
compute_next_generation_all(cs) ==
    {<<id, compute_future_state(cs, id)>> : id \in DOMAIN cs}

\* Board::compute_next_generation
compute_next_generation(cs) ==
    {<<id, compute_future_state(cs, id)>> : id \in get_relevant_cells(cs)}

\* update_next_generation that makes a cell for an id it does not find
update_next_generation_insert(cs, pairs) ==
    {[id \in DOMAIN cs \cup {p[1] : p \in pairs} |->
        IF id \in DOMAIN cs
        THEN IF <<id, TRUE>> \in pairs \/ <<id, FALSE>> \in pairs
             THEN set_alive(cs[id], <<id, TRUE>> \in pairs)
             ELSE cs[id]
        ELSE NewCell(<<id, TRUE>> \in pairs, 0, 0)]}

\* update_next_generation that writes every cell: dead unless a pair says alive
update_next_generation_overwrite(cs, pairs) ==
    {[id \in DOMAIN cs |-> set_alive(cs[id], <<id, TRUE>> \in pairs)]}

\* Board::update_next_generation, the cells.  The pairs are applied in parallel:
\* when one id comes with both flags either write may be the last, so the
\* result is a set of outcomes, one for each choice of winners.
update_next_generation(cs, pairs) ==
    LET flags(id) == {p[2] : p \in {q \in pairs : q[1] = id}}
        both == {id \in DOMAIN cs : flags(id) = BOOLEAN}
    IN  {[id \in DOMAIN cs |->
            IF get_cell(cs, id) # {} /\ flags(id) # {}
            THEN set_alive(cs[id], IF id \in both THEN id \in win ELSE TRUE \in flags(id))
            ELSE cs[id]] : win \in SUBSET both}

\* Board::get_cells mapped to (id, x, y), the value create_board (main.rs) returns
cell_list(cs) == {<<id, cs[id].x, cs[id].y>> : id \in DOMAIN cs}

(***************************************************************************)
(* cell_manager.rs: the engine that scans a Vec<Cell> in full.  A cell is  *)
(* a record (id, alive, x, y); the Vec holds one cell per position.        *)
(***************************************************************************)
\* NeighborsPosition::get_all
get_all ==
    {<<-1, -1>>, <<0, -1>>, <<1, -1>>, <<-1, 0>>, <<1, 0>>, <<-1, 1>>, <<0, 1>>, <<1, 1>>}

\* cell::Cell::offset_position
cm_offset_position(position, offset) ==
    IF offset < 0
    THEN checked_sub(position, -offset)
    ELSE checked_add(position, offset)

\* cell::Cell::find_by_position
find_by_position(list, x, y) == {c \in list : c.x = x /\ c.y = y}

\* cell::Cell::neighbors: the offsets at which a cell is found, with that cell
cm_neighbors(cell, list) ==
    UNION {{<<d, n>> : n \in UNION {find_by_position(list, ox, oy) :
                        ox \in cm_offset_position(cell.x, d[1]),
                        oy \in cm_offset_position(cell.y, d[2])}} : d \in get_all}

\* cell::Cell::alive_neighbors
alive_neighbors(found) == {f \in found : f[2].alive}

\* cell_future_state
cell_future_state(cell, found) ==
    IF cell.alive
    THEN Cardinality(alive_neighbors(found)) \in {2, 3}
    ELSE Cardinality(alive_neighbors(found)) = 3

\* compute_next_generation of cell_manager.rs
cm_compute_next_generation(list) ==
    {[c EXCEPT !.alive = cell_future_state(c, cm_neighbors(c, list))] : c \in list}

(***************************************************************************)
(* The operations.  Each is one call of a pub fn of Board or of a command  *)
(* of main.rs, with the join barrier of its parallel loops reached.        *)
(***************************************************************************)
\* no step in flight: no worker of a parallel loop runs and no Mutex is locked.
\* before is the registry as the step in flight found it, kept to compare
\* the outcome of the step with.
Idle ==
    [phase |-> "idle", relevant_cells |-> {}, next_gen |-> {}, pending |-> {},
     readers |-> EmptyMap, writers |-> {}, locks |-> {}, before |-> EmptyMap]

\* Board::new
Init ==
    /\ width = 0
    /\ height = 0
    /\ generation = 0
    /\ cells = EmptyMap
    /\ position_to_id = EmptyMap
    /\ uuid = 0
    /\ step = Idle
    /\ op = "new"
    /\ arg = <<>>
    /\ ret = {}

\* create_board (main.rs) calling Board::create_board
CreateBoard(w, h) ==
    /\ generation' = 0
    /\ width' = w
    /\ height' = h
    /\ position_to_id' = fill_position_to_id(position_to_id, uuid, w, h)
    /\ cells' = create_cells(cells, position_to_id, uuid, w, h)
    /\ uuid' = uuid + w * h
    /\ op' = "create_board"
    /\ arg' = <<w, h>>
    /\ ret' = cell_list(cells')
    /\ UNCHANGED step

\* kill_board (main.rs) calling Board::kill_board
KillBoard ==
    /\ cells' = kill_cells(cells)
    /\ generation' = 0
    /\ op' = "kill_board"
    /\ arg' = IF op = "kill_board" THEN <<2>> ELSE <<1>>
    /\ ret' = {}
    /\ UNCHANGED <<width, height, position_to_id, uuid, step>>

\* update_cell_state (main.rs)
UpdateCellState(id, new_state) ==
    /\ IF get_cell(cells, id) # {}
       THEN /\ cells' = [cells EXCEPT ![id] = set_alive(cells[id], new_state)]
            /\ ret' = {<<id, TRUE>>}
       ELSE /\ cells' = cells
            /\ ret' = {<<id, FALSE>>}
    /\ op' = "update_cell_state"
    /\ arg' = <<id, new_state>>
    /\ UNCHANGED <<width, height, generation, position_to_id, uuid, step>>

\* Board::compute_next_generation, the read phase alone
ComputeNextGeneration ==
    /\ ret' = compute_next_generation(cells)
    /\ op' = "compute_next_generation"
    /\ arg' = <<>>
    /\ UNCHANGED <<width, height, generation, cells, position_to_id, uuid, step>>

\* Board::increment_generation
increment_generation(g) == g + 1

\* update_next_generation with increment_generation inside the loop over the pairs
UpdateNextGenerationPerPair(pairs) ==
    /\ cells' \in update_next_generation(cells, pairs)
    /\ generation' = generation + Cardinality(pairs)
    /\ op' = "update_next_generation"
    /\ arg' = pairs
    /\ ret' = {}
    /\ UNCHANGED <<width, height, position_to_id, uuid, step>>

\* Board::update_next_generation, the commit phase alone
UpdateNextGeneration(pairs) ==
    /\ cells' \in update_next_generation(cells, pairs)
    /\ generation' = increment_generation(generation)
    /\ op' = "update_next_generation"
    /\ arg' = pairs
    /\ ret' = {}
    /\ UNCHANGED <<width, height, position_to_id, uuid, step>>

\* compute_next_gen that returns the list and leaves out the commit of it
ComputeNextGenNoCommit ==
    /\ ret' = compute_next_generation(cells)
    /\ cells' = cells
    /\ generation' = increment_generation(generation)
    /\ op' = "compute_next_gen"
    /\ arg' = <<>>
    /\ UNCHANGED <<width, height, position_to_id, uuid, step>>

\* compute_next_gen (main.rs): both phases, nothing in between; its local
\* next_gen is the value it returns
ComputeNextGen ==
    /\ ret' = compute_next_generation(cells)
    /\ cells' \in update_next_generation(cells, ret')
    /\ generation' = increment_generation(generation)
    /\ op' = "compute_next_gen"
    /\ arg' = <<>>
    /\ UNCHANGED <<width, height, position_to_id, uuid, step>>

(***************************************************************************)
(* The ids a caller may pass: those of the current cells, the first id     *)
(* ever handed out (stale after a rebuild) and one never handed out.       *)
(***************************************************************************)
ProbeIds == DOMAIN cells \cup {0, uuid}

(***************************************************************************)
(* SpecLife: the four commands of main.rs, run to completion one           *)
(* after the other, on the first board that has cells; every assignment   *)
(* of alive flags is reached.                                              *)
(***************************************************************************)
NextLife ==
    \/ \E w \in 0 .. LifeW, h \in 0 .. LifeH :
            uuid = 0 /\ w * h <= LifeCells /\ CreateBoard(w, h)
    \/ KillBoard
    \/ \E id \in ProbeIds, new_state \in BOOLEAN : UpdateCellState(id, new_state)
    \/ generation < LifeGen /\ ComputeNextGen

SpecLife == Init /\ [][NextLife]_vars

(***************************************************************************)
(* Spec: the pub fns of Board and update_cell_state called in any order,   *)
(* with rebuilds.  The two phases of a step are separate operations: the   *)
(* caller commits the pairs just computed, or pairs of its own (such as    *)
(* pairs it computed before a rebuild, whose ids are stale).               *)
(***************************************************************************)
PairInputs ==
    (IF op = "compute_next_generation" THEN {ret} ELSE {}) \cup
    {pairs \in SUBSET (ProbeIds \X BOOLEAN) : Cardinality(pairs) <= MaxPairs}

Next ==
    \/ \E w \in 0 .. MaxW, h \in 0 .. MaxH :
            uuid + w * h <= MaxIds /\ CreateBoard(w, h)
    \/ KillBoard
    \/ \E id \in ProbeIds, new_state \in BOOLEAN : UpdateCellState(id, new_state)
    \/ ComputeNextGeneration
    \/ \E pairs \in PairInputs : generation < MaxGen /\ UpdateNextGeneration(pairs)

Spec == Init /\ [][Next]_vars

(***************************************************************************)
(* SpecStep: compute_next_gen (main.rs) taken apart.  The read phase maps  *)
(* the relevant cells in parallel, one worker per cell in any order, and   *)
(* collect() is its join barrier; the commit phase writes the pairs in     *)
(* parallel, one worker per pair in any order, and the generation is       *)
(* incremented behind its barrier.  The other commands run between steps.  *)
(***************************************************************************)
\* compute_next_generation: get_relevant_cells
BeginCompute ==
    /\ step.phase = "idle"
    /\ step' = [Idle EXCEPT !.phase = "read",
                            !.relevant_cells = get_relevant_cells(cells),
                            !.before = cells]
    /\ op' = "compute_next_gen"
    /\ arg' = <<>>
    /\ ret' = {}
    /\ UNCHANGED <<width, height, generation, cells, position_to_id, uuid>>

\* the two phases fused: the closure of map writes the flag it computed
EvaluateFused(id) ==
    /\ step.phase = "read"
    /\ id \in step.relevant_cells
    /\ step' = [step EXCEPT !.relevant_cells = @ \ {id},
                            !.next_gen = @ \cup {<<id, compute_future_state(cells, id)>>}]
    /\ cells' = [cells EXCEPT ![id] = set_alive(cells[id], compute_future_state(cells, id))]
    /\ UNCHANGED <<width, height, generation, position_to_id, uuid, op, arg, ret>>

\* compute_next_generation: the closure of map, for one relevant cell
Evaluate(id) ==
    /\ step.phase = "read"
    /\ id \in step.relevant_cells
    /\ step' = [step EXCEPT !.relevant_cells = @ \ {id},
                            !.next_gen = @ \cup {<<id, compute_future_state(cells, id)>>}]
    /\ UNCHANGED <<width, height, generation, cells, position_to_id, uuid, op, arg, ret>>

\* compute_next_generation: collect, then the call of update_next_generation
Collect ==
    /\ step.phase = "read"
    /\ step.relevant_cells = {}
    /\ step' = [step EXCEPT !.phase = "commit", !.pending = step.next_gen]
    /\ UNCHANGED <<width, height, generation, cells, position_to_id, uuid, op, arg, ret>>

\* update_next_generation: the closure of for_each, for one pair
Commit(pair) ==
    /\ step.phase = "commit"
    /\ pair \in step.pending
    /\ cells' = IF get_cell(cells, pair[1]) # {}
                THEN [cells EXCEPT ![pair[1]] = set_alive(cells[pair[1]], pair[2])]
                ELSE cells
    /\ step' = [step EXCEPT !.pending = @ \ {pair}]
    /\ UNCHANGED <<width, height, generation, position_to_id, uuid, op, arg, ret>>

\* update_next_generation: increment_generation, and compute_next_gen returns
Finish ==
    /\ step.phase = "commit"
    /\ step.pending = {}
    /\ generation' = increment_generation(generation)
    /\ ret' = step.next_gen
    /\ step' = Idle
    /\ UNCHANGED <<width, height, cells, position_to_id, uuid, op, arg>>

NextStep ==
    \/ \E w \in 0 .. StepW, h \in 0 .. StepH :
            /\ step.phase = "idle" /\ uuid = 0 /\ w * h <= StepCells
            /\ CreateBoard(w, h)
    \/ step.phase = "idle" /\ KillBoard
    \/ \E id \in ProbeIds, new_state \in BOOLEAN :
            step.phase = "idle" /\ UpdateCellState(id, new_state)
    \/ generation < StepGen /\ BeginCompute
    \/ \E id \in DOMAIN cells : Evaluate(id)
    \/ Collect
    \/ \E pair \in step.pending : Commit(pair)
    \/ Finish

SpecStep == Init /\ [][NextStep]_vars

(***************************************************************************)
(* SpecLock: compute_next_gen (main.rs) taken apart lock by lock.  A       *)
(* worker of the read phase runs compute_future_state for one relevant     *)
(* cell: it locks the cell's alive, reads it and drops the guard at the    *)
(* end of the statement, then count_alive_neighbors locks the cell's       *)
(* neighbors and keeps that guard while its own parallel loop locks, reads *)
(* and unlocks the alive of each neighbor that upgrades.  A worker of the  *)
(* commit phase runs set_alive for one pair: it locks the cell's alive,    *)
(* writes it and unlocks.  A std Mutex blocks the caller until it is free. *)
(* get_relevant_cells holds no guard while it asks for another and is over *)
(* before the read phase starts: it is part of the step that starts it.    *)
(***************************************************************************)
\* a MutexGuard: the Mutex (which field of which cell) and the task holding it
Guard(field, id, holder) == [field |-> field, cell |-> id, holder |-> holder]

\* Mutex::lock can return at once
Unlocked(field, id) == \A g \in step.locks : ~(g.field = field /\ g.cell = id)

\* the tasks: compute_future_state for a cell, the closure of the filter of
\* count_alive_neighbors for one neighbor, set_alive for a pair
FutureStateTask(c) == <<"compute_future_state", c>>
CountTask(c, n) == <<"count_alive_neighbors", c, n>>
SetAliveTask(pair) == <<"set_alive", pair[1], pair[2]>>

\* compute_future_state: self.alive.lock()
LockOwnAlive(c) ==
    /\ step.phase = "read"
    /\ c \in step.relevant_cells
    /\ Unlocked("alive", c)
    /\ step' = [step EXCEPT
            !.relevant_cells = @ \ {c},
            !.readers = [k \in DOMAIN @ \cup {c} |->
                IF k = c
                THEN [pc |-> "alive", alive |-> FALSE, todo |-> {}, visiting |-> {}, count |-> 0]
                ELSE @[k]],
            !.locks = @ \cup {Guard("alive", c, FutureStateTask(c))}]
    /\ UNCHANGED <<width, height, generation, cells, position_to_id, uuid, op, arg, ret>>

\* compute_future_state with the guard bound to a variable (let alive =
\* self.alive.lock().unwrap()): it is kept until the function returns
ReadOwnAliveKeepGuard(c) ==
    /\ c \in DOMAIN step.readers
    /\ step.readers[c].pc = "alive"
    /\ step' = [step EXCEPT
            !.readers[c].alive = cells[c].alive,
            !.readers[c].pc = "neighbors"]
    /\ UNCHANGED <<width, height, generation, cells, position_to_id, uuid, op, arg, ret>>

\* compute_future_state: let alive = *guard, the guard dropped with the statement
ReadOwnAlive(c) ==
    /\ c \in DOMAIN step.readers
    /\ step.readers[c].pc = "alive"
    /\ step' = [step EXCEPT
            !.readers[c].alive = cells[c].alive,
            !.readers[c].pc = "neighbors",
            !.locks = @ \ {Guard("alive", c, FutureStateTask(c))}]
    /\ UNCHANGED <<width, height, generation, cells, position_to_id, uuid, op, arg, ret>>

\* count_alive_neighbors: self.neighbors.lock(), and the entries that upgrade
LockNeighbors(c) ==
    /\ c \in DOMAIN step.readers
    /\ step.readers[c].pc = "neighbors"
    /\ Unlocked("neighbors", c)
    /\ step' = [step EXCEPT
            !.readers[c].pc = "count",
            !.readers[c].todo = get_neighbors(cells, c),
            !.locks = @ \cup {Guard("neighbors", c, FutureStateTask(c))}]
    /\ UNCHANGED <<width, height, generation, cells, position_to_id, uuid, op, arg, ret>>

\* count_alive_neighbors, the filter for neighbor n: neighbor.alive.lock()
LockNeighborAlive(c, n) ==
    /\ c \in DOMAIN step.readers
    /\ n \in step.readers[c].todo
    /\ Unlocked("alive", n)
    /\ step' = [step EXCEPT
            !.readers[c].todo = @ \ {n},
            !.readers[c].visiting = @ \cup {n},
            !.locks = @ \cup {Guard("alive", n, CountTask(c, n))}]
    /\ UNCHANGED <<width, height, generation, cells, position_to_id, uuid, op, arg, ret>>

\* count_alive_neighbors, the filter for neighbor n: *guard, then the guard dropped
ReadNeighborAlive(c, n) ==
    /\ c \in DOMAIN step.readers
    /\ n \in step.readers[c].visiting
    /\ step' = [step EXCEPT
            !.readers[c].visiting = @ \ {n},
            !.readers[c].count = IF cells[n].alive THEN @ + 1 ELSE @,
            !.locks = @ \ {Guard("alive", n, CountTask(c, n))}]
    /\ UNCHANGED <<width, height, generation, cells, position_to_id, uuid, op, arg, ret>>

\* count() has joined its loop: count_alive_neighbors returns and drops its
\* guard, compute_future_state returns the match, the closure of map its pair
ReturnFutureState(c) ==
    /\ c \in DOMAIN step.readers
    /\ step.readers[c].pc = "count"
    /\ step.readers[c].todo = {}
    /\ step.readers[c].visiting = {}
    /\ step' = [step EXCEPT
            !.next_gen = @ \cup {<<c, future_state(step.readers[c].alive, step.readers[c].count)>>},
            !.readers = [k \in DOMAIN @ \ {c} |-> @[k]],
            !.locks = {g \in @ : g.holder # FutureStateTask(c)}]
    /\ UNCHANGED <<width, height, generation, cells, position_to_id, uuid, op, arg, ret>>

\* collect: the join barrier of the read phase
JoinRead == DOMAIN step.readers = {} /\ Collect

\* update_next_generation, the closure of for_each for one pair: get_cell, and
\* for a cell found set_alive: self.alive.lock()
LockAliveToSet(pair) ==
    /\ step.phase = "commit"
    /\ pair \in step.pending
    /\ IF get_cell(cells, pair[1]) # {}
       THEN /\ Unlocked("alive", pair[1])
            /\ step' = [step EXCEPT
                    !.pending = @ \ {pair},
                    !.writers = @ \cup {pair},
                    !.locks = @ \cup {Guard("alive", pair[1], SetAliveTask(pair))}]
       ELSE step' = [step EXCEPT !.pending = @ \ {pair}]
    /\ UNCHANGED <<width, height, generation, cells, position_to_id, uuid, op, arg, ret>>

\* set_alive: *alive_ref = alive, and the guard dropped
WriteAlive(pair) ==
    /\ pair \in step.writers
    /\ cells' = [cells EXCEPT ![pair[1]] = set_alive(cells[pair[1]], pair[2])]
    /\ step' = [step EXCEPT
            !.writers = @ \ {pair},
            !.locks = @ \ {Guard("alive", pair[1], SetAliveTask(pair))}]
    /\ UNCHANGED <<width, height, generation, position_to_id, uuid, op, arg, ret>>

\* for_each has joined: increment_generation, and compute_next_gen returns
JoinCommit == step.writers = {} /\ Finish

\* a step of a worker of the step in flight
Worker ==
    \/ \E c \in DOMAIN cells : LockOwnAlive(c)
    \/ \E c \in DOMAIN cells : ReadOwnAlive(c)
    \/ \E c \in DOMAIN cells : LockNeighbors(c)
    \/ \E c, n \in DOMAIN cells : LockNeighborAlive(c, n)
    \/ \E c, n \in DOMAIN cells : ReadNeighborAlive(c, n)
    \/ \E c \in DOMAIN cells : ReturnFutureState(c)
    \/ JoinRead
    \/ \E pair \in step.pending : LockAliveToSet(pair)
    \/ \E pair \in step.writers : WriteAlive(pair)
    \/ JoinCommit

NextLock ==
    \/ \E w \in 0 .. LockW, h \in 0 .. LockH :
            /\ step.phase = "idle" /\ uuid = 0 /\ w * h <= LockCells
            /\ CreateBoard(w, h)
    \/ \E id \in DOMAIN cells, new_state \in BOOLEAN :
            step.phase = "idle" /\ UpdateCellState(id, new_state)
    \/ generation < LockGen /\ BeginCompute
    \/ Worker

SpecLock == Init /\ [][NextLock]_vars

\* the pool runs a worker that can take a step: no guard is asked of Mutex
\* beyond that lock returns once the Mutex is free
SpecLockFair == SpecLock /\ WF_step(Worker)

(***************************************************************************)
(* SpecEdit: compute_next_gen (main.rs) worker by worker, as in SpecStep,  *)
(* while update_cell_state (main.rs) runs on another thread.  Board takes  *)
(* no lock for a step: update_cell_state needs the alive lock of its cell  *)
(* for one write, and no worker of the step keeps that lock between its    *)
(* statements, so the edit can come between any two of them.               *)
(***************************************************************************)
\* update_cell_state on a known id while a step is in flight, the first
\* edit since the step started
EditDuringStep(id, new_state) ==
    /\ step.phase # "idle"
    /\ op = "compute_next_gen"
    /\ UpdateCellState(id, new_state)

NextEdit ==
    \/ \E w \in 0 .. EditW, h \in 0 .. EditH :
            /\ step.phase = "idle" /\ uuid = 0 /\ w * h <= EditCells
            /\ CreateBoard(w, h)
    \/ \E id \in DOMAIN cells, new_state \in BOOLEAN :
            step.phase = "idle" /\ UpdateCellState(id, new_state)
    \/ generation < EditGen /\ BeginCompute
    \/ \E id \in DOMAIN cells : Evaluate(id)
    \/ Collect
    \/ \E pair \in step.pending : Commit(pair)
    \/ Finish
    \/ \E id \in DOMAIN cells, new_state \in BOOLEAN : EditDuringStep(id, new_state)

SpecEdit == Init /\ [][NextEdit]_vars

(***************************************************************************)
(* SpecGlider: a glider is set down cell by cell, in any order and at any  *)
(* place where it fits, on a board dead since it was built, and            *)
(* compute_next_gen is called over and over.                               *)
(***************************************************************************)
\* the glider with its bounding box at (x, y)
Glider(x, y) ==
    {<<x + 1, y>>, <<x + 2, y + 1>>, <<x, y + 2>>, <<x + 1, y + 2>>, <<x + 2, y + 2>>}

\* the coordinates of the cells alive in cs
AlivePositions(cs) == {<<cs[id].x, cs[id].y>> : id \in {i \in DOMAIN cs : cs[i].alive}}

\* the places where the bounding box of a glider is inside the board
GliderOrigins == {pos \in Grid(width, height) : pos[1] + 2 < width /\ pos[2] + 2 < height}

NextGlider ==
    \/ \E w \in 0 .. GliderW, h \in 0 .. GliderH : uuid = 0 /\ CreateBoard(w, h)
    \/ \E pos \in GliderOrigins :
            /\ generation = 0
            /\ AlivePositions(cells) \subseteq Glider(pos[1], pos[2])
            /\ \E c \in cell_list(cells), new_state \in BOOLEAN :
                    /\ <<c[2], c[3]>> \in Glider(pos[1], pos[2])
                    /\ UpdateCellState(c[1], new_state)
    \/ generation < GliderGen /\ ComputeNextGen

SpecGlider == Init /\ [][NextGlider]_vars

(***************************************************************************)
(* Properties                                                              *)
(***************************************************************************)
\* the registry as the Vec<Cell> of cell_manager.rs
AsCellList(cs) ==
    {[id |-> id, alive |-> cs[id].alive, x |-> cs[id].x, y |-> cs[id].y] : id \in DOMAIN cs}

\* the number of entries of the neighbor map of cell id
Entries(id) == Cardinality(DOMAIN cells[id].neighbors)

\* C1: one step (compute_next_generation, then update_next_generation on its
\* result) leaves every cell of the grid, relevant or not, with the flag the
\* full scan of cell_manager.rs gives it from the flags before the step, on
\* the grid without wraparound.
C1_StepIsFullScan ==
    [][op' = "compute_next_gen" =>
          AsCellList(cells') = cm_compute_next_generation(AsCellList(cells))]_vars

\* a step has run on a board where some cell was outside the relevant set, and
\* it wrote a live cell and a dead one
C1_Witness ==
    /\ op = "compute_next_gen"
    /\ Cardinality(ret) < Cardinality(DOMAIN cells)
    /\ \E p, q \in ret : p[2] /\ ~q[2]

\* the table of the life rule
LifeTable == {<<TRUE, 2>>, <<TRUE, 3>>, <<FALSE, 3>>}

\* C2: compute_future_state is decided by the cell's own flag and the number
\* of its alive neighbors that resolve, and is true exactly for (true, 2),
\* (true, 3) and (false, 3); so is cell_future_state of cell_manager.rs.
C2_FutureStateTable ==
    /\ \A alive \in BOOLEAN, n \in 0 .. 8 :
            future_state(alive, n) = (<<alive, n>> \in LifeTable)
    /\ \A id \in DOMAIN cells :
            /\ count_alive_neighbors(cells, id) \in 0 .. 8
            /\ compute_future_state(cells, id)
                    = (<<cells[id].alive, count_alive_neighbors(cells, id)>> \in LifeTable)
    /\ \A c \in AsCellList(cells) :
            cell_future_state(c, cm_neighbors(c, AsCellList(cells)))
                    = (<<c.alive, count_alive_neighbors(cells, c.id)>> \in LifeTable)

\* a live cell has eight live neighbors, the far end of the table: it dies
C2_Witness ==
    \E id \in DOMAIN cells :
        /\ cells[id].alive
        /\ count_alive_neighbors(cells, id) = 8
        /\ ~compute_future_state(cells, id)

\* C3: in a step, compute_next_generation writes no alive flag and leaves the
\* generation alone, every pair it has collected is compute_future_state on
\* the flags the read phase started with (they are still the flags), the list
\* handed to the commit phase is complete, and a flag is written only once
\* every relevant cell has been evaluated.
C3_ReadThenCommit ==
    [][/\ step.phase = "read" => cells' = cells /\ generation' = generation
       /\ step'.phase = "read" =>
            \A p \in step'.next_gen : p[2] = compute_future_state(cells', p[1])
       /\ (step.phase = "read" /\ step'.phase = "commit") =>
            step'.pending = compute_next_generation(cells)
       /\ (step.phase # "idle" /\ cells' # cells) =>
            step.phase = "commit" /\ step.relevant_cells = {}]_vars

\* the commit phase is under way: one pair has been written and changed its
\* cell, another that will change its cell is still to be written
C3_Witness ==
    /\ step.phase = "commit"
    /\ \E p \in step.next_gen \ step.pending :
            cells[p[1]].alive = p[2] /\ ~p[2]
    /\ \E q \in step.pending : cells[q[1]].alive # q[2]

Interior(id) ==
    /\ 0 < cells[id].x /\ cells[id].x < width - 1
    /\ 0 < cells[id].y /\ cells[id].y < height - 1

Corner(id) == cells[id].x \in {0, width - 1} /\ cells[id].y \in {0, height - 1}

NeighborCounts ==
    \A id \in DOMAIN cells :
        Entries(id) = IF Interior(id) THEN 8 ELSE IF Corner(id) THEN 3 ELSE 5

\* C4 as stated: on every built grid, widths and heights of 1 and 2 included,
\* an interior cell has 8 neighbor entries, a border cell that is no corner 5
\* and a corner 3.
C4_AsStated == op = "create_board" => NeighborCounts

\* C4, amended: the counts 8, 5 and 3 hold on every built grid whose width and
\* height are both at least 2.
C4_NeighborCounts == (width >= 2 /\ height >= 2) => NeighborCounts

\* a 3 x 3 board has been built: it has an interior cell, border cells and corners
C4_Witness ==
    /\ width = 3 /\ height = 3
    /\ \E id \in DOMAIN cells : Interior(id) /\ Entries(id) = 8
    /\ \E id \in DOMAIN cells : ~Interior(id) /\ ~Corner(id) /\ Entries(id) = 5
    /\ \E id \in DOMAIN cells : Corner(id) /\ Entries(id) = 3

\* C5: after create_board(w, h) returns, whatever the board was before, the
\* registry holds exactly w * h cells, exactly one at each coordinate of
\* [0, w) x [0, h), every cell is dead, the generation is 0 and width and
\* height are w and h.
C5_CreateBoardResets ==
    op = "create_board" =>
        /\ width = arg[1] /\ height = arg[2]
        /\ generation = 0
        /\ Cardinality(DOMAIN cells) = arg[1] * arg[2]
        /\ \A pos \in Grid(arg[1], arg[2]) :
                Cardinality({id \in DOMAIN cells : <<cells[id].x, cells[id].y>> = pos}) = 1
        /\ \A id \in DOMAIN cells :
                ~cells[id].alive /\ <<cells[id].x, cells[id].y>> \in Grid(arg[1], arg[2])

\* a board with cells has been built after another board with cells
C5_Witness ==
    /\ op = "create_board"
    /\ DOMAIN cells # {}
    /\ uuid > Cardinality(DOMAIN cells)

\* C6: every update_next_generation call increases the generation by exactly
\* 1, whatever the pairs: none, pairs that change no flag, pairs that change
\* many.
C6_GenerationPlusOne ==
    [][op' = "update_next_generation" => generation' = generation + 1]_vars

\* two commits in a row, the second of an empty list
C6_Witness ==
    /\ op = "update_next_generation"
    /\ arg = {}
    /\ generation = 2

\* the ids that occur in pairs
PairIds(pairs) == {p[1] : p \in pairs}

\* C7: update_next_generation(pairs) leaves the alive flag of every cell
\* whose id is not in pairs as it was, and changes neither the set of cells,
\* nor the dimensions, nor an entry of a neighbor map.
C7_UpdateFrame ==
    [][op' = "update_next_generation" =>
          /\ DOMAIN cells' = DOMAIN cells
          /\ width' = width /\ height' = height
          /\ position_to_id' = position_to_id
          /\ \A id \in DOMAIN cells :
                /\ cells'[id].neighbors = cells[id].neighbors
                /\ cells'[id].x = cells[id].x /\ cells'[id].y = cells[id].y
                /\ id \notin PairIds(arg') => cells'[id].alive = cells[id].alive]_vars

\* a commit of a pair for a known cell has run while a cell outside the pairs
\* was alive
C7_Witness ==
    /\ op = "update_next_generation"
    /\ \E id \in DOMAIN cells : id \in PairIds(arg)
    /\ \E id \in DOMAIN cells : id \notin PairIds(arg) /\ cells[id].alive

\* C8: kill_board sets every cell dead and the generation to 0, and a second
\* kill_board right after it changes nothing.
C8_KillIdempotent ==
    [][op' = "kill_board" =>
          /\ \A id \in DOMAIN cells' : ~cells'[id].alive
          /\ generation' = 0
          /\ kill_cells(cells') = cells'
          /\ op = "kill_board" => board' = board]_vars

\* kill_board has run twice in a row on a board with cells
C8_Witness ==
    /\ op = "kill_board"
    /\ arg = <<2>>
    /\ DOMAIN cells # {}

\* C9: kill_board changes alive flags and the generation only: width, height,
\* the set of cell ids, the coordinates of each cell, the position index and
\* every neighbor map are as before.
C9_KillFrame ==
    [][op' = "kill_board" =>
          /\ width' = width /\ height' = height
          /\ position_to_id' = position_to_id
          /\ DOMAIN cells' = DOMAIN cells
          /\ \A id \in DOMAIN cells :
                /\ cells'[id].x = cells[id].x /\ cells'[id].y = cells[id].y
                /\ cells'[id].neighbors = cells[id].neighbors]_vars

\* kill_board has run on a board whose cells have neighbors
C9_Witness ==
    /\ op = "kill_board"
    /\ arg = <<1>>
    /\ \E id \in DOMAIN cells : Entries(id) > 0

\* C10: update_cell_state(id, flag) with an id the registry does not hold
\* returns (id, false) and changes nothing; with a known id it returns
\* (id, true), sets the flag of that cell to flag and leaves every other flag
\* and the generation as they were.
C10_UpdateCellState ==
    [][op' = "update_cell_state" =>
          /\ DOMAIN cells' = DOMAIN cells
          /\ <<width, height, generation, position_to_id>>'
                = <<width, height, generation, position_to_id>>
          /\ IF arg'[1] \in DOMAIN cells
             THEN /\ ret' = {<<arg'[1], TRUE>>}
                  /\ cells'[arg'[1]] = [cells[arg'[1]] EXCEPT !.alive = arg'[2]]
                  /\ \A id \in DOMAIN cells \ {arg'[1]} : cells'[id] = cells[id]
             ELSE /\ ret' = {<<arg'[1], FALSE>>}
                  /\ cells' = cells]_vars

\* the id of a cell of an earlier board was passed while the board had a live
\* cell, and the call reported failure
C10_Witness ==
    /\ op = "update_cell_state"
    /\ ret = {<<0, FALSE>>}
    /\ uuid > 0
    /\ \E id \in DOMAIN cells : cells[id].alive

\* the cells one row and one column at most away from cell a, a itself left out
Adjacent(cs, a) ==
    {b \in DOMAIN cs \ {a} :
        /\ cs[b].x - cs[a].x \in {-1, 0, 1}
        /\ cs[b].y - cs[a].y \in {-1, 0, 1}}

\* the cells alive in cs and the cells next to one of them
Relevant(cs) ==
    {id \in DOMAIN cs : cs[id].alive \/ \E a \in Adjacent(cs, id) : cs[a].alive}

\* C11: the list compute_next_generation returns holds exactly the relevant
\* cells: an id occurs in it if and only if its cell was alive when the call
\* started or is a neighbor of a cell that was, and each such id occurs once.
C11_RelevantCellsExactly ==
    [][op' = "compute_next_gen" =>
          /\ PairIds(ret') = Relevant(cells)
          /\ Cardinality(ret') = Cardinality(Relevant(cells))]_vars

\* a step has run on a 3 x 3 board where eight cells were relevant, some of
\* them next to two live cells, and the corner (2, 0) was not
C11_Witness ==
    /\ op = "compute_next_gen"
    /\ width = 3 /\ height = 3
    /\ Cardinality(ret) = 8
    /\ \E id \in DOMAIN cells \ PairIds(ret) : cells[id].x = 2 /\ cells[id].y = 0

\* C12: when compute_next_gen returns, no other operation having run
\* meanwhile, every pair (id, flag) of the list it returns names a cell of the
\* registry whose alive flag is flag: the flags returned are those after the
\* commit.
C12_ReturnsCommittedFlags ==
    op = "compute_next_gen" =>
        \A p \in ret : get_cell(cells, p[1]) # {} /\ cells[p[1]].alive = p[2]

\* a step has returned a pair for each of the nine cells of a 3 x 3 board,
\* one returned alive whose cell is alive and one returned dead whose cell is dead
C12_Witness ==
    /\ op = "compute_next_gen"
    /\ Cardinality(ret) = 9
    /\ \E p, q \in ret : p[2] /\ cells[p[1]].alive /\ ~q[2] /\ ~cells[q[1]].alive

\* every cell of cs is dead
AllDead(cs) == \A id \in DOMAIN cs : ~cs[id].alive

\* C13: whenever every cell is dead, on a board just built or after
\* kill_board, compute_next_generation returns an empty list, and the commit
\* of that list leaves every cell dead.
C13_DeadBoardStaysDead ==
    [][(op' = "compute_next_gen" /\ AllDead(cells)) =>
          /\ ret' = {}
          /\ update_next_generation(cells, ret') = {cells}
          /\ cells' = cells
          /\ AllDead(cells')]_vars

\* a step has run on a 3 x 3 board with every cell dead and returned nothing
C13_Witness ==
    /\ op = "compute_next_gen"
    /\ ret = {}
    /\ generation = 1
    /\ Cardinality(DOMAIN cells) = 9
    /\ AllDead(cells)

\* the cells alive in cs
Alive(cs) == {id \in DOMAIN cs : cs[id].alive}

\* C14: on a board whose only live cell is c, compute_next_generation returns
\* exactly 1 + (number of neighbors of c) pairs, those of c and of its
\* neighbors, every one with flag false, and after the commit the whole board
\* is dead; on a 3 x 3 board with the centre alive that is 9 pairs.
C14_LoneCellDies ==
    [][(op' = "compute_next_gen" /\ Cardinality(Alive(cells)) = 1) =>
          \A c \in Alive(cells) :
              /\ Cardinality(ret') = 1 + Entries(c)
              /\ PairIds(ret') = {c} \cup get_neighbors(cells, c)
              /\ Entries(c) = Cardinality(Adjacent(cells, c))
              /\ \A p \in ret' : ~p[2]
              /\ AllDead(cells')
              /\ (width = 3 /\ height = 3 /\ cells[c].x = 1 /\ cells[c].y = 1) =>
                    Cardinality(ret') = 9]_vars

\* a step has run on a 3 x 3 board and returned four dead pairs, those of the
\* corner (0, 0) and of its three neighbors: only that corner can have been alive
C14_Witness ==
    /\ op = "compute_next_gen"
    /\ width = 3 /\ height = 3
    /\ Cardinality(ret) = 4
    /\ \A p \in ret : ~p[2] /\ cells[p[1]].x <= 1 /\ cells[p[1]].y <= 1
    /\ AllDead(cells)

\* the glider of Glider(x, y) after k steps, k up to 4
GliderPhase(k, x, y) ==
    CASE k = 0 -> Glider(x, y)
      [] k = 1 -> {<<x, y + 1>>, <<x + 2, y + 1>>, <<x + 1, y + 2>>, <<x + 2, y + 2>>, <<x + 1, y + 3>>}
      [] k = 2 -> {<<x + 2, y + 1>>, <<x, y + 2>>, <<x + 2, y + 2>>, <<x + 1, y + 3>>, <<x + 2, y + 3>>}
      [] k = 3 -> {<<x + 1, y + 1>>, <<x + 2, y + 2>>, <<x + 3, y + 2>>, <<x + 1, y + 3>>, <<x + 2, y + 3>>}
      [] k = 4 -> Glider(x + 1, y + 1)

\* the glider of Glider(x, y) has room for its four steps
GliderFits(x, y) == x + 3 < width /\ y + 3 < height

\* C15: with the glider (x+1,y), (x+2,y+1), (x,y+2), (x+1,y+2), (x+2,y+2) the
\* only live cells of a board that reaches to (x+3, y+3), four steps leave
\* the same shape moved by (+1, +1) the only live cells and the generation
\* greater by 4: step k + 1 takes the glider from its k-th phase to the next
\* and adds 1 to the generation, for k = 0, 1, 2, 3.
C15_GliderMoves ==
    [][op' = "compute_next_gen" =>
          \A pos \in GliderOrigins, k \in 0 .. 3 :
              (GliderFits(pos[1], pos[2])
                    /\ AlivePositions(cells) = GliderPhase(k, pos[1], pos[2])) =>
                  /\ AlivePositions(cells') = GliderPhase(k + 1, pos[1], pos[2])
                  /\ generation' = generation + 1]_vars

\* four steps have run and the live cells are the glider at (1, 1)
C15_Witness ==
    /\ op = "compute_next_gen"
    /\ generation = 4
    /\ AlivePositions(cells) = Glider(1, 1)

HasNeighbor(a, b) ==
    /\ <<cells[b].x, cells[b].y>> \in DOMAIN cells[a].neighbors
    /\ upgrade(cells, cells[a].neighbors[<<cells[b].x, cells[b].y>>]) = {b}

\* C17: after create_board returns, the adjacency is symmetric and refers to
\* cells of the current board only: cell A has an entry at the coordinate of
\* B that resolves to B if and only if B has one at the coordinate of A that
\* resolves to A, and every entry resolves to the cell of the registry at the
\* coordinate of the entry.
C17_AdjacencySymmetric ==
    /\ \A a, b \in DOMAIN cells : HasNeighbor(a, b) <=> HasNeighbor(b, a)
    /\ \A a \in DOMAIN cells : \A pos \in DOMAIN cells[a].neighbors :
            \E b \in upgrade(cells, cells[a].neighbors[pos]) :
                <<cells[b].x, cells[b].y>> = pos /\ HasNeighbor(a, b)

\* create_board has returned a board built after another one, and two of its
\* cells have each other as neighbors
C17_Witness ==
    /\ op = "create_board"
    /\ uuid > Cardinality(DOMAIN cells)
    /\ \E a, b \in DOMAIN cells : a # b /\ HasNeighbor(a, b) /\ HasNeighbor(b, a)

\* the ids handed out before the last create_board: those of earlier boards
OldIds == 0 .. uuid - width * height - 1

\* C18: after create_board returns, every cell id of a board before it is
\* unknown: get_cell finds no cell for it, update_cell_state on it returns
\* (id, false) and changes no cell, and no cell of the new board has a cell
\* of an old one among the neighbors that resolve, nor an entry for one.
C18_OldIdsUnknown ==
    [][/\ \A old \in OldIds' :
            /\ get_cell(cells', old) = {}
            /\ \A id \in DOMAIN cells' :
                    /\ old \notin get_neighbors(cells', id)
                    /\ \A pos \in DOMAIN cells'[id].neighbors :
                            cells'[id].neighbors[pos] # old
       /\ (op' = "update_cell_state" /\ arg'[1] \in OldIds) =>
            /\ ret' = {<<arg'[1], FALSE>>}
            /\ cells' = cells]_vars

\* update_cell_state has been called, on a board with cells built after
\* another, with the id of a cell of the first board and has reported failure
C18_Witness ==
    /\ op = "update_cell_state"
    /\ arg[1] = 0
    /\ 0 \in OldIds
    /\ ret = {<<0, FALSE>>}
    /\ DOMAIN cells # {}

\* C19: update_next_generation given pairs whose ids are not in the registry
\* (such as pairs computed before a create_board that came between compute and
\* commit) does not fail: it skips them, changes no cell through them, and
\* still adds exactly 1 to the generation.
C19_StalePairsSkipped ==
    [][(op' = "update_next_generation" /\ PairIds(arg') \ DOMAIN cells # {}) =>
          /\ generation' = generation + 1
          /\ DOMAIN cells' = DOMAIN cells
          /\ \A id \in DOMAIN cells \ PairIds(arg') : cells'[id] = cells[id]
          /\ PairIds(arg') \cap DOMAIN cells = {} => cells' = cells]_vars

\* a pair with the id of a cell of the first board has been committed to a
\* later board that has a live cell, after another commit
C19_Witness ==
    /\ op = "update_next_generation"
    /\ 0 \in PairIds(arg)
    /\ 0 \in OldIds
    /\ generation = 2
    /\ \E id \in DOMAIN cells : cells[id].alive

\* the tasks of the step in flight that have not returned
Tasks ==
    {FutureStateTask(c) : c \in step.relevant_cells \cup DOMAIN step.readers}
        \cup UNION {{CountTask(c, n) : n \in step.readers[c].todo \cup step.readers[c].visiting} :
                        c \in DOMAIN step.readers}
        \cup {SetAliveTask(pair) : pair \in step.pending \cup step.writers}

\* the Mutex whose lock() the task is about to call or is blocked in
Wants ==
    {<<FutureStateTask(c), "alive", c>> : c \in step.relevant_cells}
        \cup {<<FutureStateTask(c), "neighbors", c>> :
                c \in {r \in DOMAIN step.readers : step.readers[r].pc = "neighbors"}}
        \cup UNION {{<<CountTask(c, n), "alive", n>> : n \in step.readers[c].todo} :
                        c \in DOMAIN step.readers}
        \cup {<<SetAliveTask(pair), "alive", pair[1]>> :
                pair \in {p \in step.pending : get_cell(cells, p[1]) # {}}}

\* task a cannot go on before task b has: b holds the Mutex a wants, or a is
\* count_alive_neighbors joining its loop and b a task of that loop
WaitsFor(a, b) ==
    \/ \E want \in Wants :
            want[1] = a /\ a # b /\ Guard(want[2], want[3], b) \in step.locks
    \/ \E c \in DOMAIN step.readers :
            /\ a = FutureStateTask(c)
            /\ step.readers[c].pc = "count"
            /\ \E n \in step.readers[c].todo \cup step.readers[c].visiting : b = CountTask(c, n)

\* no set of tasks in which every task waits for another of the set
NoWaitCycle ==
    \A waiting \in SUBSET Tasks :
        waiting = {} \/ \E a \in waiting : \A b \in waiting : ~WaitsFor(a, b)

\* C20: every step terminates: the workers of the read phase (each holding
\* the neighbors lock of one cell while the alive locks of its neighbors are
\* taken) and the workers of the commit phase (each taking the alive lock of
\* one cell), scheduled fairly, never wait forever: the locks never form a
\* wait cycle, the read phase reaches its join barrier and so does the commit
\* phase, after which the step has returned.
C20_StepTerminates ==
    /\ []NoWaitCycle
    /\ (step.phase = "read") ~> (step.phase = "commit")
    /\ (step.phase = "commit") ~> (step.phase = "idle")

\* compute_future_state for one cell waits for the alive lock of its cell,
\* held by a task that counts for a neighbor under that neighbor's neighbors lock
C20_Witness ==
    \E c \in step.relevant_cells, d \in DOMAIN step.readers :
        /\ Guard("alive", c, CountTask(d, c)) \in step.locks
        /\ Guard("neighbors", d, FutureStateTask(d)) \in step.locks
        /\ WaitsFor(FutureStateTask(c), CountTask(d, c))

\* the registries a step run to its end without interference leaves of cs
StepAlone(cs) == update_next_generation(cs, compute_next_generation(cs))

\* the registry update_cell_state(id, new_state) leaves of cs
EditAlone(cs, id, new_state) == [cs EXCEPT ![id] = set_alive(cs[id], new_state)]

\* C21: a step is atomic with respect to an edit of one cell: when
\* update_cell_state(id, flag) on a known id has run on another thread while a
\* step was in flight, the alive flags the step leaves when it returns are
\* those of one of the two serial orders, the edit and then the step or the
\* step and then the edit, from the flags the step started with.
C21_StepAtomicForEdits ==
    [][(step.phase = "commit" /\ step'.phase = "idle" /\ op = "update_cell_state") =>
          \/ cells' \in StepAlone(EditAlone(step.before, arg[1], arg[2]))
          \/ cells' \in {EditAlone(after, arg[1], arg[2]) : after \in StepAlone(step.before)}]_vars

\* C22: after create_board returns, whatever boards were built before it (a
\* wider or a taller one included), the position index and the registry
\* agree: position_to_id has an entry for every coordinate of
\* [0, width) x [0, height) and no other entry, and every id it holds is the
\* id of a cell of the registry whose x and y are the key.
C22_IndexAgreesWithCells ==
    op = "create_board" =>
        /\ DOMAIN position_to_id = Grid(width, height)
        /\ \A pos \in DOMAIN position_to_id :
                /\ position_to_id[pos] \in DOMAIN cells
                /\ <<cells[position_to_id[pos]].x, cells[position_to_id[pos]].y>> = pos

====
